---------------------------- MODULE Spec2Model ----------------------------
(***************************************************************************)
(* A model of qiskit-nature's MolecularProblem.second_q_ops() pipeline,    *)
(* of the singlet double-excitation enumeration its UCCSD tests pin down,  *)
(* and of the excitation-list comparators those tests use.                 *)
(*                                                                         *)
(* Integral tensors and operators are symbolic terms: a tensor records     *)
(* which driver produced it and which transformers it went through, an     *)
(* operator records the tensors it was built from.  Two values are equal   *)
(* exactly when they were computed the same way from the same inputs.      *)
(***************************************************************************)
EXTENDS Integers, Sequences, FiniteSets, TLC

(***************************************************************************)
(* Bounds of the model.                                                    *)
(***************************************************************************)
MaxChain == 2            \* transformers in one q_molecule_transformers list
MaxDriverOrbitals == 2   \* most spatial orbitals in a driver's snapshot
MaxSpatial == 4          \* largest num_orbitals / 2 given to the enumeration
MaxListLen == 2          \* longest excitation list given to the comparator
MaxGroups == 2           \* most groups in a list given to the group comparator

Instances == {"p1", "p2"}                 \* MolecularProblem objects
TransformerKinds == {"reduce", "strip", "attach"}
DriverErrors == {"io_error", "convergence_error"}
ModeCounts == {2 * k : k \in 1..MaxDriverOrbitals}   \* spin orbitals
ExcIndices == {0, 1, 2}                   \* indices inside a compared excitation

RECURSIVE SeqsUpTo(_, _)
SeqsUpTo(S, n) ==
    IF n = 0 THEN {<<>>}
    ELSE LET shorter == SeqsUpTo(S, n - 1)
         IN  shorter \cup {Append(s, x) : s \in shorter, x \in S}

\* A transformer list names each transformer at most once.
Chains ==
    {c \in SeqsUpTo(TransformerKinds, MaxChain) :
        \A j, k \in 1..Len(c) : c[j] = c[k] => j = k}

(***************************************************************************)
(* Integral tensors and the QMolecule snapshot.                            *)
(***************************************************************************)
None == [name |-> "None", shape |-> 0, drv |-> "None", via |-> <<>>]

Tensor(name, n, d) ==
    [name |-> name, shape |-> n, drv |-> d, via |-> <<>>]

NoMolecule ==
    [one_body_integrals |-> None, two_body_integrals |-> None,
     x_dipole_integrals |-> None, y_dipole_integrals |-> None,
     z_dipole_integrals |-> None]

\* What the driver of instance d returns for a molecule with n spin orbitals,
\* with or without dipole integrals.
DriverOutput(d, n, dip) ==
    [one_body_integrals |-> Tensor("h1", n, d),
     two_body_integrals |-> Tensor("h2", n, d),
     x_dipole_integrals |-> IF dip THEN Tensor("x_dip", n, d) ELSE None,
     y_dipole_integrals |-> IF dip THEN Tensor("y_dip", n, d) ELSE None,
     z_dipole_integrals |-> IF dip THEN Tensor("z_dip", n, d) ELSE None]

has_dipole_integrals(q) ==
    /\ q.x_dipole_integrals # None
    /\ q.y_dipole_integrals # None
    /\ q.z_dipole_integrals # None

(***************************************************************************)
(* Transformers: pure functions from a snapshot to a new snapshot.         *)
(*   reduce  shrinks the orbital space by one spatial orbital              *)
(*   strip   drops the dipole integrals                                    *)
(*   attach  (re)computes dipole integrals for the current orbital space   *)
(***************************************************************************)
Through(t, kind, n) ==
    IF t = None THEN None
    ELSE [t EXCEPT !.shape = n, !.via = Append(t.via, kind)]

ReducedShape(n) == IF n > 2 THEN n - 2 ELSE n

transform(kind, q) ==
    LET n == q.one_body_integrals.shape
        m == IF kind = "reduce" THEN ReducedShape(n) ELSE n
        h1 == Through(q.one_body_integrals, kind, m)
    IN  [one_body_integrals |-> h1,
         two_body_integrals |-> Through(q.two_body_integrals, kind, m),
         x_dipole_integrals |->
            CASE kind = "strip" -> None
              [] kind = "attach" -> [h1 EXCEPT !.name = "x_dip"]
              [] OTHER -> Through(q.x_dipole_integrals, kind, m),
         y_dipole_integrals |->
            CASE kind = "strip" -> None
              [] kind = "attach" -> [h1 EXCEPT !.name = "y_dip"]
              [] OTHER -> Through(q.y_dipole_integrals, kind, m),
         z_dipole_integrals |->
            CASE kind = "strip" -> None
              [] kind = "attach" -> [h1 EXCEPT !.name = "z_dip"]
              [] OTHER -> Through(q.z_dipole_integrals, kind, m)]

\* BaseProblem._transform: the chain applied left to right.
RECURSIVE _transform(_, _)
_transform(chain, q) ==
    IF chain = <<>> THEN q
    ELSE _transform(Tail(chain), transform(Head(chain), q))

(***************************************************************************)
(* Operators.                                                              *)
(***************************************************************************)
build_ferm_op_from_ints(one_body, two_body) ==
    [h1 |-> one_body, h2 |-> two_body]

build_fermionic_op(q) ==
    build_ferm_op_from_ints(q.one_body_integrals, q.two_body_integrals)

Observable(name, n) ==
    [name |-> name, shape |-> n, drv |-> "None", via |-> <<>>]

calc_total_magnetization_ints(n) == <<Observable("total_magnetization", n), None>>

calc_total_ang_momentum_ints(n) ==
    <<Observable("total_ang_momentum_1", n), Observable("total_ang_momentum_2", n)>>

calc_total_particle_num_ints(n) == <<Observable("total_particle_num", n), None>>

_create_total_magnetization_operator(n) ==
    LET ints == calc_total_magnetization_ints(n)
    IN  build_ferm_op_from_ints(ints[1], ints[2])

_create_total_angular_momentum_operator(n) ==
    LET ints == calc_total_ang_momentum_ints(n)
    IN  build_ferm_op_from_ints(ints[1], ints[2])

_create_total_particle_number_operator(n) ==
    LET ints == calc_total_particle_num_ints(n)
    IN  build_ferm_op_from_ints(ints[1], ints[2])

\* Mutant: the z dipole operator is forgotten.
_create_dipole_operators_xy(q) ==
    <<build_ferm_op_from_ints(q.x_dipole_integrals, None),
      build_ferm_op_from_ints(q.y_dipole_integrals, None)>>

_create_dipole_operators(q) ==
    <<build_ferm_op_from_ints(q.x_dipole_integrals, None),
      build_ferm_op_from_ints(q.y_dipole_integrals, None),
      build_ferm_op_from_ints(q.z_dipole_integrals, None)>>

(***************************************************************************)
(* Double excitations of UCCSD for method_doubles 'succ' and 'succ_full'.  *)
(* An excitation is [occ_alpha, unocc_alpha, occ_beta, unocc_beta] over    *)
(* num_orbitals spin orbitals in blocked order (alpha first).              *)
(***************************************************************************)
Range(lo, n) == [k \in 1..n |-> lo + k - 1]      \* list(range(lo, lo + n))

active_occ_list_alpha(norb, np) == Range(0, np[1])
active_unocc_list_alpha(norb, np) == Range(np[1], (norb \div 2) - np[1])
active_occ_list_beta(norb, np) == Range(norb \div 2, np[2])
active_unocc_list_beta(norb, np) ==
    Range((norb \div 2) + np[2], (norb \div 2) - np[2])

RECURSIVE Concat(_)
Concat(ss) == IF ss = <<>> THEN <<>> ELSE Head(ss) \o Concat(Tail(ss))

\* [f(x) for x in xs], flattened: f gives a list for every element.
Loop(xs, f(_)) == Concat([k \in 1..Len(xs) |-> f(xs[k])])

\* xs[i:] of Python, i counted from 0
From(xs, i) == SubSeq(xs, i + 1, Len(xs))

\* 'ucc' loops restricted to one alpha and one beta electron: every
\* combination of an alpha and a beta excitation.
ucc_doubles(norb, np) ==
    LET oa == active_occ_list_alpha(norb, np)
        ua == active_unocc_list_alpha(norb, np)
        ob == active_occ_list_beta(norb, np)
        ub == active_unocc_list_beta(norb, np)
        D(i, a) == Loop(ob, LAMBDA j : Loop(ub, LAMBDA b : << <<i, a, j, b>> >>))
        C(i) == Loop(ua, LAMBDA a : D(i, a))
    IN  Loop(oa, C)

\* Mutant: the beta lists are scanned from their start.
succ_doubles_unsliced(norb, np) == ucc_doubles(norb, np)

\* 'succ' loops: the beta lists are scanned from the position of the alpha
\* orbital on, which keeps one excitation of every symmetric pair.
succ_doubles(norb, np) ==
    LET oa == active_occ_list_alpha(norb, np)
        ua == active_unocc_list_alpha(norb, np)
        ob == active_occ_list_beta(norb, np)
        ub == active_unocc_list_beta(norb, np)
        D(i, j, a) == Loop(From(ub, a - 1),
                           LAMBDA y : << <<oa[i], ua[a], ob[j], y>> >>)
        C(i, j) == Loop(Range(1, Len(ua)), LAMBDA a : D(i, j, a))
        B(i) == Loop(Range(i, Len(ob) - i + 1), LAMBDA j : C(i, j))
    IN  Loop(Range(1, Len(oa)), B)

RECURSIVE Insert(_, _)
Insert(x, sorted) ==
    IF sorted = <<>> THEN <<x>>
    ELSE IF x <= Head(sorted) THEN <<x>> \o sorted
    ELSE <<Head(sorted)>> \o Insert(x, Tail(sorted))

RECURSIVE Sorted(_)
Sorted(xs) == IF xs = <<>> THEN <<>> ELSE Insert(Head(xs), Sorted(Tail(xs)))

\* Two double excitations act on the same spatial orbitals.
same_ao_double_excitation_block_spin(de_1, de_2, norb) ==
    LET half == norb \div 2
        ao(de) == Sorted([k \in 1..Len(de) |-> de[k] % half])
    IN  ao(de_1) = ao(de_2)

\* Mutant: only list_de[0] is removed from the excitations still to group.
group_excitations_keeping(list_de, norb) ==
    LET same(de) == same_ao_double_excitation_block_spin(list_de[1], de, norb)
    IN  <<SelectSeq(list_de, same), Tail(list_de)>>

\* One grouping pass: the excitations on the spatial orbitals of list_de[0],
\* and the rest.
group_excitations(list_de, norb) ==
    LET same(de) == same_ao_double_excitation_block_spin(list_de[1], de, norb)
        other(de) == ~same(de)
    IN  <<SelectSeq(list_de, same), SelectSeq(list_de, other)>>

(***************************************************************************)
(* The excitation-list comparators of the UCCSD tests.                     *)
(***************************************************************************)
Excitations == {e \in ExcIndices \X ExcIndices : e[1] # e[2]}
ExcitationLists == SeqsUpTo(Excitations, MaxListLen)

\* The groups the group comparator is given: one or two excitations each.
GroupChoices ==
    { << <<0, 1>> >>, << <<1, 0>> >>, << <<0, 2>> >>,
      << <<0, 1>>, <<0, 2>> >>, << <<0, 2>>, <<1, 0>> >> }
GroupLists == SeqsUpTo(GroupChoices, MaxGroups)

Pop(xs, k) == SubSeq(xs, 1, k - 1) \o SubSeq(xs, k + 1, Len(xs))

\* the increments the two innermost loops make to counter
EqualIndexPairs(exc1, exc2) ==
    Cardinality({p \in (1..Len(exc1)) \X (1..Len(exc2)) : exc1[p[1]] = exc2[p[2]]})

\* The loop over list2 for one exc1: the position (from 1) at which the pop
\* happens, 0 when the loop runs to its end.  counter is never reset.
RECURSIVE ScanList2(_, _, _, _)
ScanList2(exc1, list2, j, counter) ==
    IF j > Len(list2) THEN 0
    ELSE LET c == counter + EqualIndexPairs(exc1, list2[j])
         IN  IF c = Len(exc1) /\ c = Len(list2[j]) THEN j
             ELSE ScanList2(exc1, list2, j + 1, c)

\* pop_el_when_matched had it lacked list2.pop(j)
pop_el_from_list1_only(l1, l2) ==
    IF l1 = <<>> THEN <<l1, l2>>
    ELSE LET j == ScanList2(l1[1], l2, 1, 0)
         IN  IF j = 0 THEN <<l1, l2>> ELSE <<Pop(l1, 1), l2>>

\* The outer loop ends with an unconditional break: only list1[0] is tried.
pop_el_when_matched(l1, l2) ==
    IF l1 = <<>> THEN <<l1, l2>>
    ELSE LET j == ScanList2(l1[1], l2, 1, 0)
         IN  IF j = 0 THEN <<l1, l2>> ELSE <<Pop(l1, 1), Pop(l2, j)>>

\* The final expression had it been bool(len(list1) == 0 and len(list2) == 0)
FinalExpressionBothEmpty(l1, l2) == Len(l1) = 0 /\ Len(l2) = 0

\* bool(len(list1) or len(list2) in [0]), which Python reads as
\* bool(len(list1) or (len(list2) in [0]))
FinalExpression(l1, l2) == IF Len(l1) # 0 THEN TRUE ELSE Len(l2) \in {0}

\* The for loop of lines 314-315 run to its end: n calls of
\* pop_el_when_matched on the same two list objects.
RECURSIVE MatchingPasses(_, _, _)
MatchingPasses(l1, l2, n) ==
    IF n = 0 THEN <<l1, l2>>
    ELSE LET r == pop_el_when_matched(l1, l2)
         IN  MatchingPasses(r[1], r[2], n - 1)

\* One whole call: <<what it returns, what it leaves in list1, in list2>>.
excitation_lists_comparator(l1, l2) ==
    IF Len(l1) # Len(l2) THEN <<FALSE, l1, l2>>
    ELSE LET r == MatchingPasses(l1, l2, Len(l1))
         IN  <<FinalExpression(r[1], r[2]), r[1], r[2]>>

(***************************************************************************)
(* State.  The variables of second_q_ops() are functions of the            *)
(* MolecularProblem instance; the locals are those of the instance's       *)
(* current second_q_ops() frame.                                           *)
(***************************************************************************)
VARIABLES
    q_molecule_transformers,   \* self.transformers, fixed at construction
    pc,                        \* position of the current call
    q_molecule,                \* local: what driver.run() returned
    q_molecule_transformed,    \* local: the snapshot inside/after _transform
    applied,                   \* number of transformers _transform has applied
    num_modes,                 \* local
    second_quantized_ops_list, \* local
    outcome,                   \* what the caller got: a list or an exception
    driver_exc,                \* what the driver raised in the current call
    dipole_calls,              \* _create_dipole_operators calls in this call
    log,                       \* the steps of the current call, in order
    \* UCCSD construction
    num_orbitals, num_particles, method_doubles,
    epc,                       \* position of the construction
    _double_excitations,
    _double_excitations_grouped,
    list_de_temp,              \* excitations not grouped yet
    \* excitation_lists_comparator
    arg1, arg2,                \* the lists as the caller passed them
    list1, list2,              \* the same list objects, mutated in place
    number_el,
    passes,                    \* iterations of the for loop done
    res,
    cpc,                       \* position of the comparator
    \* group_excitation_lists_comparator
    garg1, garg2,              \* the group lists as the caller passed them
    glist1, glist2,            \* the same objects, their groups mutated in place
    number_groups,
    counter,
    at1, at2,                  \* positions of gr1 in glist1 and gr2 in glist2
    res_groups,
    gpc                        \* position of the group comparator

molVars == <<q_molecule_transformers, pc, q_molecule, q_molecule_transformed,
             applied, num_modes, second_quantized_ops_list, outcome,
             driver_exc, dipole_calls, log>>
excVars == <<num_orbitals, num_particles, method_doubles, epc,
             _double_excitations, _double_excitations_grouped, list_de_temp>>
cmpVars == <<arg1, arg2, list1, list2, number_el, passes, res, cpc>>
grpVars == <<garg1, garg2, glist1, glist2, number_groups, counter, at1, at2,
             res_groups, gpc>>
vars == <<molVars, excVars, cmpVars, grpVars>>

NoOutcome == [status |-> "none", value |-> <<>>, exc |-> "none"]

MolIdle ==
    /\ pc = [i \in Instances |-> "idle"]
    /\ q_molecule = [i \in Instances |-> NoMolecule]
    /\ q_molecule_transformed = [i \in Instances |-> NoMolecule]
    /\ applied = [i \in Instances |-> 0]
    /\ num_modes = [i \in Instances |-> 0]
    /\ second_quantized_ops_list = [i \in Instances |-> <<>>]
    /\ outcome = [i \in Instances |-> NoOutcome]
    /\ driver_exc = [i \in Instances |-> "none"]
    /\ dipole_calls = [i \in Instances |-> 0]
    /\ log = [i \in Instances |-> <<>>]

ExcIdle ==
    /\ epc = "idle"
    /\ _double_excitations = <<>>
    /\ _double_excitations_grouped = <<>>
    /\ list_de_temp = <<>>

CmpIdle ==
    /\ list1 = arg1
    /\ list2 = arg2
    /\ number_el = 0
    /\ passes = 0
    /\ res = FALSE
    /\ cpc = "idle"

GrpIdle ==
    /\ glist1 = garg1
    /\ glist2 = garg2
    /\ number_groups = 0
    /\ counter = 0
    /\ at1 = 1
    /\ at2 = 1
    /\ res_groups = FALSE
    /\ gpc = "idle"

\* MolecularProblem(driver, q_molecule_transformers) for every instance.
Init ==
    /\ q_molecule_transformers \in [Instances -> Chains]
    /\ MolIdle
    /\ num_orbitals = 2 /\ num_particles = <<1, 1>> /\ method_doubles = "succ"
    /\ ExcIdle
    /\ arg1 = <<>> /\ arg2 = <<>>
    /\ CmpIdle
    /\ garg1 = <<>> /\ garg2 = <<>>
    /\ GrpIdle

(***************************************************************************)
(* MolecularProblem.second_q_ops()                                         *)
(***************************************************************************)
\* The caller enters second_q_ops(): a fresh frame, nothing carried over.
Call(i) ==
    /\ pc[i] \in {"idle", "returned", "raised"}
    /\ pc' = [pc EXCEPT ![i] = "run"]
    /\ q_molecule' = [q_molecule EXCEPT ![i] = NoMolecule]
    /\ q_molecule_transformed' = [q_molecule_transformed EXCEPT ![i] = NoMolecule]
    /\ applied' = [applied EXCEPT ![i] = 0]
    /\ num_modes' = [num_modes EXCEPT ![i] = 0]
    /\ second_quantized_ops_list' = [second_quantized_ops_list EXCEPT ![i] = <<>>]
    /\ outcome' = [outcome EXCEPT ![i] = NoOutcome]
    /\ driver_exc' = [driver_exc EXCEPT ![i] = "none"]
    /\ dipole_calls' = [dipole_calls EXCEPT ![i] = 0]
    /\ log' = [log EXCEPT ![i] = <<>>]
    /\ UNCHANGED <<q_molecule_transformers, excVars, cmpVars, grpVars>>

\* Mutant: the driver's snapshot is cached at class level, so a call may pick
\* up the snapshot another instance's driver returned.
DriverRunSharedCache(i) ==
    /\ pc[i] = "run"
    /\ \E n \in ModeCounts, dip \in BOOLEAN :
          q_molecule' =
             [q_molecule EXCEPT
                 ![i] = IF \E j \in Instances \ {i} : q_molecule[j] # NoMolecule
                        THEN q_molecule[CHOOSE j \in Instances \ {i} :
                                           q_molecule[j] # NoMolecule]
                        ELSE DriverOutput(i, n, dip)]
    /\ q_molecule_transformed' = [q_molecule_transformed EXCEPT ![i] = q_molecule'[i]]
    /\ pc' = [pc EXCEPT ![i] = "transform"]
    /\ log' = [log EXCEPT ![i] = Append(@, "run")]
    /\ UNCHANGED <<q_molecule_transformers, applied, num_modes,
                   second_quantized_ops_list, outcome, driver_exc,
                   dipole_calls, excVars, cmpVars, grpVars>>

\* q_molecule = self.driver.run(), the driver returning a snapshot; the
\* snapshot is then handed to self._transform.
DriverRun(i) ==
    /\ pc[i] = "run"
    /\ \E n \in ModeCounts, dip \in BOOLEAN :
          q_molecule' = [q_molecule EXCEPT ![i] = DriverOutput(i, n, dip)]
    /\ q_molecule_transformed' = [q_molecule_transformed EXCEPT ![i] = q_molecule'[i]]
    /\ pc' = [pc EXCEPT ![i] = "transform"]
    /\ log' = [log EXCEPT ![i] = Append(@, "run")]
    /\ UNCHANGED <<q_molecule_transformers, applied, num_modes,
                   second_quantized_ops_list, outcome, driver_exc,
                   dipole_calls, excVars, cmpVars, grpVars>>

\* Mutant: the driver's exception is caught and replaced.
PropagatedWrapped(e) == "QiskitNatureError"

\* An exception leaving second_q_ops(): the method has no try/except.
Propagated(e) == e

\* self.driver.run() raising: the exception unwinds second_q_ops().
DriverFail(i) ==
    /\ pc[i] = "run"
    /\ \E e \in DriverErrors :
          /\ driver_exc' = [driver_exc EXCEPT ![i] = e]
          /\ outcome' = [outcome EXCEPT
                            ![i] = [status |-> "raised", value |-> <<>>,
                                    exc |-> Propagated(e)]]
    /\ pc' = [pc EXCEPT ![i] = "raised"]
    /\ log' = [log EXCEPT ![i] = Append(@, "run")]
    /\ UNCHANGED <<q_molecule_transformers, q_molecule, q_molecule_transformed,
                   applied, num_modes, second_quantized_ops_list,
                   dipole_calls, excVars, cmpVars, grpVars>>

\* One iteration of the loop of self._transform(q_molecule).
TransformStep(i) ==
    /\ pc[i] = "transform"
    /\ applied[i] < Len(q_molecule_transformers[i])
    /\ LET kind == q_molecule_transformers[i][applied[i] + 1]
       IN  /\ q_molecule_transformed' =
                 [q_molecule_transformed EXCEPT ![i] = transform(kind, @)]
           /\ log' = [log EXCEPT ![i] = Append(@, kind)]
    /\ applied' = [applied EXCEPT ![i] = @ + 1]
    /\ UNCHANGED <<q_molecule_transformers, pc, q_molecule, num_modes,
                   second_quantized_ops_list, outcome, driver_exc,
                   dipole_calls, excVars, cmpVars, grpVars>>

\* Mutant: total magnetization and total angular momentum change places.
BuildOperatorsSwapped(i) ==
    /\ pc[i] = "transform"
    /\ applied[i] = Len(q_molecule_transformers[i])
    /\ LET n == q_molecule_transformed[i].one_body_integrals.shape
       IN  /\ num_modes' = [num_modes EXCEPT ![i] = n]
           /\ second_quantized_ops_list' =
                 [second_quantized_ops_list EXCEPT
                     ![i] = <<build_fermionic_op(q_molecule_transformed[i]),
                              _create_total_angular_momentum_operator(n),
                              _create_total_magnetization_operator(n),
                              _create_total_particle_number_operator(n)>>]
    /\ pc' = [pc EXCEPT ![i] = "dipole"]
    /\ log' = [log EXCEPT ![i] = Append(@, "build")]
    /\ UNCHANGED <<q_molecule_transformers, q_molecule, q_molecule_transformed,
                   applied, outcome, driver_exc, dipole_calls, excVars,
                   cmpVars, grpVars>>

\* Mutant: the operators are built without waiting for _transform to finish.
BuildOperatorsEarly(i) ==
    /\ pc[i] = "transform"
    /\ LET n == q_molecule_transformed[i].one_body_integrals.shape
       IN  /\ num_modes' = [num_modes EXCEPT ![i] = n]
           /\ second_quantized_ops_list' =
                 [second_quantized_ops_list EXCEPT
                     ![i] = <<build_fermionic_op(q_molecule_transformed[i]),
                              _create_total_magnetization_operator(n),
                              _create_total_angular_momentum_operator(n),
                              _create_total_particle_number_operator(n)>>]
    /\ pc' = [pc EXCEPT ![i] = "dipole"]
    /\ log' = [log EXCEPT ![i] = Append(@, "build")]
    /\ UNCHANGED <<q_molecule_transformers, q_molecule, q_molecule_transformed,
                   applied, outcome, driver_exc, dipole_calls, excVars,
                   cmpVars, grpVars>>

\* Mutant: num_modes and the electronic operator come from the driver's
\* snapshot instead of the transformed one.
BuildOperatorsFromRaw(i) ==
    /\ pc[i] = "transform"
    /\ applied[i] = Len(q_molecule_transformers[i])
    /\ LET n == q_molecule[i].one_body_integrals.shape
       IN  /\ num_modes' = [num_modes EXCEPT ![i] = n]
           /\ second_quantized_ops_list' =
                 [second_quantized_ops_list EXCEPT
                     ![i] = <<build_fermionic_op(q_molecule[i]),
                              _create_total_magnetization_operator(n),
                              _create_total_angular_momentum_operator(n),
                              _create_total_particle_number_operator(n)>>]
    /\ pc' = [pc EXCEPT ![i] = "dipole"]
    /\ log' = [log EXCEPT ![i] = Append(@, "build")]
    /\ UNCHANGED <<q_molecule_transformers, q_molecule, q_molecule_transformed,
                   applied, outcome, driver_exc, dipole_calls, excVars,
                   cmpVars, grpVars>>

\* Mutant: the total magnetization operator is built from the snapshot's
\* one-body integrals instead of from num_modes.
BuildOperatorsFromIntegrals(i) ==
    /\ pc[i] = "transform"
    /\ applied[i] = Len(q_molecule_transformers[i])
    /\ LET n == q_molecule_transformed[i].one_body_integrals.shape
       IN  /\ num_modes' = [num_modes EXCEPT ![i] = n]
           /\ second_quantized_ops_list' =
                 [second_quantized_ops_list EXCEPT
                     ![i] = <<build_fermionic_op(q_molecule_transformed[i]),
                              build_ferm_op_from_ints(
                                  q_molecule_transformed[i].one_body_integrals,
                                  None),
                              _create_total_angular_momentum_operator(n),
                              _create_total_particle_number_operator(n)>>]
    /\ pc' = [pc EXCEPT ![i] = "dipole"]
    /\ log' = [log EXCEPT ![i] = Append(@, "build")]
    /\ UNCHANGED <<q_molecule_transformers, q_molecule, q_molecule_transformed,
                   applied, outcome, driver_exc, dipole_calls, excVars,
                   cmpVars, grpVars>>

\* Lines 52-62, once _transform has returned: num_modes and the four
\* operators every call builds.
BuildOperators(i) ==
    /\ pc[i] = "transform"
    /\ applied[i] = Len(q_molecule_transformers[i])
    /\ LET n == q_molecule_transformed[i].one_body_integrals.shape
       IN  /\ num_modes' = [num_modes EXCEPT ![i] = n]
           /\ second_quantized_ops_list' =
                 [second_quantized_ops_list EXCEPT
                     ![i] = <<build_fermionic_op(q_molecule_transformed[i]),
                              _create_total_magnetization_operator(n),
                              _create_total_angular_momentum_operator(n),
                              _create_total_particle_number_operator(n)>>]
    /\ pc' = [pc EXCEPT ![i] = "dipole"]
    /\ log' = [log EXCEPT ![i] = Append(@, "build")]
    /\ UNCHANGED <<q_molecule_transformers, q_molecule, q_molecule_transformed,
                   applied, outcome, driver_exc, dipole_calls, excVars,
                   cmpVars, grpVars>>

\* Lines 64-71 when the transformed snapshot has dipole integrals: the three
\* dipole operators are appended and the list is returned.
ReturnWithDipoles(i) ==
    /\ pc[i] = "dipole"
    /\ has_dipole_integrals(q_molecule_transformed[i])
    /\ LET ops == second_quantized_ops_list[i]
                     \o _create_dipole_operators(q_molecule_transformed[i])
       IN  /\ second_quantized_ops_list' =
                 [second_quantized_ops_list EXCEPT ![i] = ops]
           /\ outcome' = [outcome EXCEPT
                             ![i] = [status |-> "returned", value |-> ops,
                                     exc |-> "none"]]
    /\ dipole_calls' = [dipole_calls EXCEPT ![i] = @ + 1]
    /\ pc' = [pc EXCEPT ![i] = "returned"]
    /\ log' = [log EXCEPT ![i] = @ \o <<"dipoles", "return">>]
    /\ UNCHANGED <<q_molecule_transformers, q_molecule, q_molecule_transformed,
                   applied, num_modes, driver_exc, excVars, cmpVars, grpVars>>

\* Mutant: missing dipole integrals are reported as an error.
RaiseMissingDipoleData(i) ==
    /\ pc[i] = "dipole"
    /\ ~has_dipole_integrals(q_molecule_transformed[i])
    /\ outcome' = [outcome EXCEPT
                      ![i] = [status |-> "raised", value |-> <<>>,
                              exc |-> "MissingDipoleData"]]
    /\ pc' = [pc EXCEPT ![i] = "raised"]
    /\ UNCHANGED <<q_molecule_transformers, q_molecule, q_molecule_transformed,
                   applied, num_modes, second_quantized_ops_list, driver_exc,
                   dipole_calls, log, excVars, cmpVars, grpVars>>

\* Lines 64 and 71 when it has none: the list of four is returned.
ReturnWithoutDipoles(i) ==
    /\ pc[i] = "dipole"
    /\ ~has_dipole_integrals(q_molecule_transformed[i])
    /\ outcome' = [outcome EXCEPT
                      ![i] = [status |-> "returned",
                              value |-> second_quantized_ops_list[i],
                              exc |-> "none"]]
    /\ pc' = [pc EXCEPT ![i] = "returned"]
    /\ log' = [log EXCEPT ![i] = Append(@, "return")]
    /\ UNCHANGED <<q_molecule_transformers, q_molecule, q_molecule_transformed,
                   applied, num_modes, second_quantized_ops_list, driver_exc,
                   dipole_calls, excVars, cmpVars, grpVars>>

Next ==
    \E i \in Instances :
        \/ Call(i)
        \/ DriverRun(i)
        \/ DriverFail(i)
        \/ TransformStep(i)
        \/ BuildOperators(i)
        \/ ReturnWithDipoles(i)
        \/ ReturnWithoutDipoles(i)

Spec == Init /\ [][Next]_vars

(***************************************************************************)
(* UCCSD(num_orbitals, num_particles, method_doubles, excitation_type='d') *)
(* computing its double excitations.                                       *)
(***************************************************************************)
ExcInit ==
    /\ q_molecule_transformers = [i \in Instances |-> <<>>]
    /\ MolIdle
    /\ \E h \in 2..MaxSpatial :
          /\ num_orbitals = 2 * h
          /\ num_particles \in (1..(h - 1)) \X (1..(h - 1))
    /\ method_doubles \in {"succ", "succ_full"}
    /\ epc = "start"
    /\ _double_excitations = <<>>
    /\ _double_excitations_grouped = <<>>
    /\ list_de_temp = <<>>
    /\ arg1 = <<>> /\ arg2 = <<>>
    /\ CmpIdle
    /\ garg1 = <<>> /\ garg2 = <<>>
    /\ GrpIdle

\* compute_excitation_lists with method_doubles = 'succ'
ComputeSinglet ==
    /\ epc = "start"
    /\ method_doubles = "succ"
    /\ _double_excitations' = succ_doubles(num_orbitals, num_particles)
    /\ epc' = "done"
    /\ UNCHANGED <<num_orbitals, num_particles, method_doubles,
                   _double_excitations_grouped, list_de_temp, molVars, cmpVars, grpVars>>

\* compute_excitation_lists with method_doubles = 'succ_full': all the
\* excitations, which are grouped next.
ComputeForGrouping ==
    /\ epc = "start"
    /\ method_doubles = "succ_full"
    /\ _double_excitations' = ucc_doubles(num_orbitals, num_particles)
    /\ list_de_temp' = ucc_doubles(num_orbitals, num_particles)
    /\ epc' = "group"
    /\ UNCHANGED <<num_orbitals, num_particles, method_doubles,
                   _double_excitations_grouped, molVars, cmpVars, grpVars>>

\* One pass of group_excitations_if_same_ao: a group is split off.
GroupStep ==
    /\ epc = "group"
    /\ list_de_temp # <<>>
    /\ LET r == group_excitations(list_de_temp, num_orbitals)
       IN  /\ _double_excitations_grouped' = Append(_double_excitations_grouped, r[1])
           /\ list_de_temp' = r[2]
    /\ UNCHANGED <<num_orbitals, num_particles, method_doubles, epc,
                   _double_excitations, molVars, cmpVars, grpVars>>

\* Nothing is left to group.
GroupDone ==
    /\ epc = "group"
    /\ list_de_temp = <<>>
    /\ epc' = "done"
    /\ UNCHANGED <<num_orbitals, num_particles, method_doubles,
                   _double_excitations, _double_excitations_grouped,
                   list_de_temp, molVars, cmpVars, grpVars>>

ExcNext == ComputeSinglet \/ ComputeForGrouping \/ GroupStep \/ GroupDone

SpecExc == ExcInit /\ [][ExcNext]_vars

(***************************************************************************)
(* excitation_lists_comparator(list1, list2)                               *)
(***************************************************************************)
CmpInit ==
    /\ q_molecule_transformers = [i \in Instances |-> <<>>]
    /\ MolIdle
    /\ num_orbitals = 2 /\ num_particles = <<1, 1>> /\ method_doubles = "succ"
    /\ ExcIdle
    /\ arg1 \in ExcitationLists
    /\ arg2 \in ExcitationLists
    /\ list1 = arg1
    /\ list2 = arg2
    /\ number_el = 0
    /\ passes = 0
    /\ res = FALSE
    /\ cpc = "start"
    /\ garg1 = <<>> /\ garg2 = <<>>
    /\ GrpIdle

\* Lines 309-310: lists of different lengths are not compared further.
LengthsDiffer ==
    /\ cpc = "start"
    /\ Len(list1) # Len(list2)
    /\ res' = FALSE
    /\ cpc' = "done"
    /\ UNCHANGED <<arg1, arg2, list1, list2, number_el, passes, molVars, excVars, grpVars>>

\* Line 312: number_el = len(list1)
EnterLoop ==
    /\ cpc = "start"
    /\ Len(list1) = Len(list2)
    /\ number_el' = Len(list1)
    /\ cpc' = "loop"
    /\ UNCHANGED <<arg1, arg2, list1, list2, passes, res, molVars, excVars, grpVars>>

\* Lines 314-315: one iteration, one call of pop_el_when_matched.
MatchingPass ==
    /\ cpc = "loop"
    /\ passes < number_el
    /\ LET r == pop_el_when_matched(list1, list2)
       IN  list1' = r[1] /\ list2' = r[2]
    /\ passes' = passes + 1
    /\ UNCHANGED <<arg1, arg2, number_el, res, cpc, molVars, excVars, grpVars>>

\* Line 317
ReturnResult ==
    /\ cpc = "loop"
    /\ passes = number_el
    /\ res' = FinalExpression(list1, list2)
    /\ cpc' = "done"
    /\ UNCHANGED <<arg1, arg2, list1, list2, number_el, passes, molVars, excVars, grpVars>>

CmpNext == LengthsDiffer \/ EnterLoop \/ MatchingPass \/ ReturnResult

SpecCmp == CmpInit /\ [][CmpNext]_vars

(***************************************************************************)
(* group_excitation_lists_comparator(glist1, glist2)                       *)
(***************************************************************************)
GrpInit ==
    /\ q_molecule_transformers = [i \in Instances |-> <<>>]
    /\ MolIdle
    /\ num_orbitals = 2 /\ num_particles = <<1, 1>> /\ method_doubles = "succ"
    /\ ExcIdle
    /\ arg1 = <<>> /\ arg2 = <<>>
    /\ CmpIdle
    /\ garg1 \in GroupLists
    /\ garg2 \in GroupLists
    /\ glist1 = garg1
    /\ glist2 = garg2
    /\ number_groups = 0
    /\ counter = 0
    /\ at1 = 1
    /\ at2 = 1
    /\ res_groups = FALSE
    /\ gpc = "start"

\* Lines 332-333
GroupCountsDiffer ==
    /\ gpc = "start"
    /\ Len(glist1) # Len(glist2)
    /\ res_groups' = FALSE
    /\ gpc' = "done"
    /\ UNCHANGED <<garg1, garg2, glist1, glist2, number_groups, counter, at1,
                   at2, molVars, excVars, cmpVars>>

\* Lines 335-336
EnterGroupLoops ==
    /\ gpc = "start"
    /\ Len(glist1) = Len(glist2)
    /\ number_groups' = Len(glist1)
    /\ counter' = 0
    /\ gpc' = "loops"
    /\ UNCHANGED <<garg1, garg2, glist1, glist2, at1, at2, res_groups,
                   molVars, excVars, cmpVars>>

\* Lines 337-341: one iteration of the inner loop.  gr1 and gr2 are the
\* group objects of the two lists, so what excitation_lists_comparator pops
\* from them is gone for the iterations that follow.
CompareGroups ==
    /\ gpc = "loops"
    /\ at1 <= Len(glist1)
    /\ at2 <= Len(glist2)
    /\ LET r == excitation_lists_comparator(glist1[at1], glist2[at2])
       IN  /\ glist1' = [glist1 EXCEPT ![at1] = r[2]]
           /\ glist2' = [glist2 EXCEPT ![at2] = r[3]]
           /\ counter' = IF r[1] = TRUE THEN counter + 1 ELSE counter
    /\ IF at2 < Len(glist2)
          THEN at2' = at2 + 1 /\ at1' = at1
          ELSE at2' = 1 /\ at1' = at1 + 1
    /\ UNCHANGED <<garg1, garg2, number_groups, res_groups, gpc,
                   molVars, excVars, cmpVars>>

\* Line 343
ReturnGroupResult ==
    /\ gpc = "loops"
    /\ at1 > Len(glist1)
    /\ res_groups' = (counter = number_groups)
    /\ gpc' = "done"
    /\ UNCHANGED <<garg1, garg2, glist1, glist2, number_groups, counter, at1,
                   at2, molVars, excVars, cmpVars>>

GrpNext ==
    GroupCountsDiffer \/ EnterGroupLoops \/ CompareGroups \/ ReturnGroupResult

SpecGrp == GrpInit /\ [][GrpNext]_vars

(***************************************************************************)
(* Properties of second_q_ops().                                           *)
(***************************************************************************)
Returned(i) == pc[i] = "returned"

\* The snapshot the finished or running call works on, recomputed from what
\* its driver returned and its transformer list.
Transformed(i) == _transform(q_molecule_transformers[i], q_molecule[i])

\* C1: a call that returns hands back 4 operators when the transformed
\* snapshot has no dipole integrals and 7 when it has them, and never a
\* list of another length.
C1_FourOrSevenOperators ==
    \A i \in Instances :
        Returned(i) =>
            /\ outcome[i].status = "returned"
            /\ Len(outcome[i].value) =
                  (IF has_dipole_integrals(q_molecule_transformed[i]) THEN 7 ELSE 4)
            /\ Len(outcome[i].value) \in {4, 7}

C1_Witness ==
    /\ Returned("p1") /\ Len(outcome["p1"].value) = 7
    /\ Returned("p2") /\ Len(outcome["p2"].value) = 4

\* C2: the returned list is [electronic, total magnetization, total angular
\* momentum, total particle number] followed, exactly when the transformed
\* snapshot has dipole integrals, by the x, y and z dipole operators; the
\* first four entries are the same with and without the dipole operators.
C2_PositionalOrder ==
    \A i \in Instances :
        Returned(i) =>
            LET ops == outcome[i].value
                q == q_molecule_transformed[i]
                n == q.one_body_integrals.shape
            IN  /\ Len(ops) >= 4
                /\ ops[1] = [h1 |-> q.one_body_integrals,
                             h2 |-> q.two_body_integrals]
                /\ ops[2].h1.name = "total_magnetization" /\ ops[2].h1.shape = n
                /\ ops[3].h1.name = "total_ang_momentum_1" /\ ops[3].h1.shape = n
                /\ ops[4].h1.name = "total_particle_num" /\ ops[4].h1.shape = n
                /\ (Len(ops) > 4) = has_dipole_integrals(q)
                /\ Len(ops) > 4 =>
                      /\ Len(ops) = 7
                      /\ ops[5] = [h1 |-> q.x_dipole_integrals, h2 |-> None]
                      /\ ops[6] = [h1 |-> q.y_dipole_integrals, h2 |-> None]
                      /\ ops[7] = [h1 |-> q.z_dipole_integrals, h2 |-> None]
                      /\ ops[5].h1.name = "x_dip"
                      /\ ops[6].h1.name = "y_dip"
                      /\ ops[7].h1.name = "z_dip"
                /\ \A j \in Instances :
                      (Returned(j) /\ n = q_molecule_transformed[j]
                                               .one_body_integrals.shape)
                         => \A k \in 2..4 : ops[k] = outcome[j].value[k]

C2_Witness ==
    /\ Returned("p1") /\ Len(outcome["p1"].value) = 7
    /\ Returned("p2") /\ Len(outcome["p2"].value) = 4
    /\ num_modes["p1"] = num_modes["p2"]

\* C3: when driver.run() raises, the caller gets that very exception, no
\* transformer has been applied, no operator has been built and no list,
\* partial or full, has been returned.
C3_DriverFailurePropagates ==
    \A i \in Instances :
        (driver_exc[i] # "none") =>
            /\ pc[i] = "raised"
            /\ outcome[i].status = "raised"
            /\ outcome[i].exc = driver_exc[i]
            /\ outcome[i].value = <<>>
            /\ applied[i] = 0
            /\ q_molecule_transformed[i] = NoMolecule
            /\ second_quantized_ops_list[i] = <<>>
            /\ log[i] = <<"run">>

C3_Witness ==
    /\ pc["p1"] = "raised" /\ outcome["p1"].exc = "convergence_error"
    /\ Len(q_molecule_transformers["p1"]) > 0

\* C4: with no dipole integrals in the transformed snapshot the call ends
\* by returning the four non-dipole operators: no exception reaches the
\* caller once a snapshot exists, and _create_dipole_operators is not called.
C4_DipolesSilentlyOmitted ==
    \A i \in Instances :
        /\ (Returned(i) /\ ~has_dipole_integrals(q_molecule_transformed[i])) =>
              /\ outcome[i].status = "returned"
              /\ outcome[i].value = second_quantized_ops_list[i]
              /\ Len(outcome[i].value) = 4
              /\ dipole_calls[i] = 0
              /\ \A k \in 1..Len(log[i]) : log[i][k] # "dipoles"
        /\ (pc[i] = "dipole" /\ ~has_dipole_integrals(q_molecule_transformed[i])) =>
              dipole_calls[i] = 0
        /\ outcome[i].status = "raised" => q_molecule[i] = NoMolecule

C4_Witness ==
    /\ Returned("p1")
    /\ has_dipole_integrals(q_molecule["p1"])
    /\ ~has_dipole_integrals(q_molecule_transformed["p1"])
    /\ Len(outcome["p1"].value) = 4

\* second_q_ops() as one sequential computation on a driver output.
second_q_ops_alone(chain, raw) ==
    LET q == _transform(chain, raw)
        n == q.one_body_integrals.shape
        four == <<build_fermionic_op(q),
                  build_ferm_op_from_ints(calc_total_magnetization_ints(n)[1],
                                          calc_total_magnetization_ints(n)[2]),
                  build_ferm_op_from_ints(calc_total_ang_momentum_ints(n)[1],
                                          calc_total_ang_momentum_ints(n)[2]),
                  build_ferm_op_from_ints(calc_total_particle_num_ints(n)[1],
                                          calc_total_particle_num_ints(n)[2])>>
    IN  IF has_dipole_integrals(q)
        THEN four \o <<build_ferm_op_from_ints(q.x_dipole_integrals, None),
                       build_ferm_op_from_ints(q.y_dipole_integrals, None),
                       build_ferm_op_from_ints(q.z_dipole_integrals, None)>>
        ELSE four

\* C5: whatever the interleaving with the calls of the other instance, a
\* call returns what it returns when run alone on the snapshot its own
\* driver.run() gave it in this very call, with its own transformer list.
C5_CallsAreIndependent ==
    \A i \in Instances :
        /\ Returned(i) =>
              /\ outcome[i].value =
                    second_q_ops_alone(q_molecule_transformers[i], q_molecule[i])
              /\ \A k \in 1..Len(outcome[i].value) :
                    outcome[i].value[k].h1.drv \in {i, "None"}
        /\ pc[i] \in {"transform", "dipole", "returned"} =>
              /\ q_molecule[i].one_body_integrals.drv = i
              /\ Len(log[i]) >= 1 /\ log[i][1] = "run"
              /\ Cardinality({k \in 1..Len(log[i]) : log[i][k] = "run"}) = 1
        /\ pc[i] = "run" => q_molecule[i] = NoMolecule /\ log[i] = <<>>

\* One instance is inside _transform while the other has returned, the two
\* working on different snapshots with different transformer lists.
C5_Witness ==
    /\ pc["p1"] = "transform" /\ applied["p1"] = 1
    /\ Returned("p2")
    /\ q_molecule["p1"].one_body_integrals.shape
          # q_molecule["p2"].one_body_integrals.shape
    /\ q_molecule_transformers["p1"] # q_molecule_transformers["p2"]

IsPrefix(s, t) == Len(s) <= Len(t) /\ s = SubSeq(t, 1, Len(s))

\* The steps of a complete call in the order the method makes them.
FullLog(i) ==
    <<"run">> \o q_molecule_transformers[i] \o <<"build">>
        \o (IF has_dipole_integrals(Transformed(i)) THEN <<"dipoles">> ELSE <<>>)
        \o <<"return">>

\* C8: in one call driver.run() is the first step and happens once, then the
\* transformers run in list order, each on the output of the previous one,
\* and operators exist only after the last transformer has returned.
C8_StepsInOrder ==
    \A i \in Instances :
        /\ IsPrefix(log[i], FullLog(i))
        /\ pc[i] \in {"transform", "dipole", "returned"} =>
              /\ q_molecule_transformed[i] =
                    _transform(SubSeq(q_molecule_transformers[i], 1, applied[i]),
                               q_molecule[i])
              /\ Len(log[i]) >= 1 + applied[i]
              /\ SubSeq(log[i], 1, 1 + applied[i]) =
                    <<"run">> \o SubSeq(q_molecule_transformers[i], 1, applied[i])
        /\ second_quantized_ops_list[i] # <<>> =>
              /\ applied[i] = Len(q_molecule_transformers[i])
              /\ \E k \in 1..Len(log[i]) :
                    /\ log[i][k] = "build"
                    /\ k = 2 + Len(q_molecule_transformers[i])
        /\ Returned(i) => log[i] = FullLog(i)

C8_Witness ==
    /\ Returned("p1")
    /\ Len(q_molecule_transformers["p1"]) = 2
    /\ q_molecule_transformers["p1"][1] # q_molecule_transformers["p1"][2]
    /\ _transform(q_molecule_transformers["p1"], q_molecule["p1"])
          # _transform(<<q_molecule_transformers["p1"][2],
                         q_molecule_transformers["p1"][1]>>, q_molecule["p1"])

\* C9: what is returned comes from the transformed snapshot: num_modes is
\* the first dimension of its one-body integrals, the electronic operator
\* is built from it, and it decides whether there are dipole operators and
\* what they are built from.
C9_BuiltFromTransformedSnapshot ==
    \A i \in Instances :
        Returned(i) =>
            LET q == Transformed(i)
                ops == outcome[i].value
            IN  /\ num_modes[i] = q.one_body_integrals.shape
                /\ ops[1] = build_fermionic_op(q)
                /\ \A k \in 2..4 : ops[k].h1.shape = q.one_body_integrals.shape
                /\ Len(ops) = (IF has_dipole_integrals(q) THEN 7 ELSE 4)
                /\ has_dipole_integrals(q) =>
                      /\ ops[5].h1 = q.x_dipole_integrals
                      /\ ops[6].h1 = q.y_dipole_integrals
                      /\ ops[7].h1 = q.z_dipole_integrals

\* One call whose chain removed the driver's dipole integrals and shrank the
\* orbital space, another whose chain added dipole integrals.
C9_Witness ==
    /\ Returned("p1")
    /\ has_dipole_integrals(q_molecule["p1"])
    /\ Len(outcome["p1"].value) = 4
    /\ num_modes["p1"] # q_molecule["p1"].one_body_integrals.shape
    /\ Returned("p2")
    /\ ~has_dipole_integrals(q_molecule["p2"])
    /\ Len(outcome["p2"].value) = 7

(***************************************************************************)
(* Properties of the double excitations.                                   *)
(***************************************************************************)
\* The lists the UCCSD test expects for 8 spin orbitals and one alpha and
\* one beta electron.
reference_singlet_double_excitations ==
    << <<0, 1, 4, 5>>, <<0, 1, 4, 6>>, <<0, 1, 4, 7>>,
       <<0, 2, 4, 6>>, <<0, 2, 4, 7>>, <<0, 3, 4, 7>> >>

reference_singlet_groups ==
    << << <<0, 1, 4, 5>> >>, << <<0, 1, 4, 6>>, <<0, 2, 4, 5>> >>,
       << <<0, 1, 4, 7>>, <<0, 3, 4, 5>> >>, << <<0, 2, 4, 6>> >>,
       << <<0, 2, 4, 7>>, <<0, 3, 4, 6>> >>, << <<0, 3, 4, 7>> >> >>

IndexSet(exc) == {exc[k] : k \in 1..Len(exc)}
Elements(xs) == {xs[k] : k \in 1..Len(xs)}
IndexSets(xs) == {IndexSet(xs[k]) : k \in 1..Len(xs)}
NoDuplicates(xs) == Cardinality(IndexSets(xs)) = Len(xs)
Firsts(groups) == [k \in 1..Len(groups) |-> groups[k][1]]

GroupedDone == epc = "done" /\ method_doubles = "succ_full"
ClosedShell == num_particles[1] = num_particles[2]

\* C6 as stated: the succ_full groups, flattened, are exactly the succ
\* excitations, none missing, none extra, none twice.
C6_FlattenedGroupsAreSinglets ==
    GroupedDone =>
        /\ IndexSets(Concat(_double_excitations_grouped))
              = IndexSets(succ_doubles(num_orbitals, num_particles))
        /\ NoDuplicates(Concat(_double_excitations_grouped))

\* C6 as amended: the succ_full groups, flattened, hold every succ
\* excitation and no excitation twice, and besides the succ excitations only
\* excitations on the same spatial orbitals as the first member of their
\* group; with as many alpha as beta electrons the succ excitations are
\* exactly the first members of the groups, one per group.
C6_SingletsAreGroupRepresentatives ==
    GroupedDone =>
        LET groups == _double_excitations_grouped
            singlets == succ_doubles(num_orbitals, num_particles)
        IN  /\ \A g \in 1..Len(groups) : groups[g] # <<>>
            /\ NoDuplicates(singlets)
            /\ NoDuplicates(Concat(groups))
            /\ IndexSets(singlets) \subseteq IndexSets(Concat(groups))
            /\ \A g \in 1..Len(groups) : \A k \in 1..Len(groups[g]) :
                  same_ao_double_excitation_block_spin(
                      groups[g][1], groups[g][k], num_orbitals)
            /\ ClosedShell =>
                  /\ Elements(Firsts(groups)) = Elements(singlets)
                  /\ Len(groups) = Len(singlets)
            /\ (num_orbitals = 8 /\ num_particles = <<1, 1>>)
                  => groups = reference_singlet_groups

\* The test's case: six groups, three of them with a second excitation that
\* 'succ' does not list.
C6_Witness ==
    /\ GroupedDone
    /\ num_orbitals = 8 /\ num_particles = <<1, 1>>
    /\ Len(_double_excitations_grouped) = 6
    /\ Len(Concat(_double_excitations_grouped)) = 9

\* C7: for 8 spin orbitals and num_particles = (1, 1), 'succ' gives the six
\* excitations of the test's reference list and no other.
C7_ReferenceSingletExcitations ==
    (epc = "done" /\ method_doubles = "succ"
        /\ num_orbitals = 8 /\ num_particles = <<1, 1>>) =>
        /\ Elements(_double_excitations)
              = Elements(reference_singlet_double_excitations)
        /\ Len(_double_excitations) = 6

C7_Witness ==
    /\ epc = "done" /\ method_doubles = "succ"
    /\ num_orbitals = 8 /\ num_particles = <<1, 1>>
    /\ Len(_double_excitations) = 6

(***************************************************************************)
(* Properties of the comparator.                                           *)
(***************************************************************************)
\* The two lists hold the same excitations, each as often in one as in the
\* other, an excitation being its set of indices.
SameExcitations(l1, l2) ==
    \A s \in IndexSets(l1 \o l2) :
        Cardinality({k \in 1..Len(l1) : IndexSet(l1[k]) = s})
            = Cardinality({k \in 1..Len(l2) : IndexSet(l2[k]) = s})

\* C10: the comparator answers True exactly when the two lists hold the same
\* excitations up to the order of the indices, and False otherwise.
C10_ComparatorDecidesSameness ==
    cpc = "done" => (res = SameExcitations(arg1, arg2))

SameGroup(gr1, gr2) == SameExcitations(gr1, gr2)

GroupOrders(n) ==
    {f \in [1..n -> 1..n] : \A a, b \in 1..n : f[a] = f[b] => a = b}

\* The two lists hold the same groups, in whatever order they are listed.
SameGroups(gl1, gl2) ==
    /\ Len(gl1) = Len(gl2)
    /\ \E f \in GroupOrders(Len(gl1)) :
          \A k \in 1..Len(gl1) : SameGroup(gl1[k], gl2[f[k]])

\* C12: the group comparator answers True exactly when the two lists hold
\* the same groups of excitations, whatever the order of the groups, and
\* False otherwise.
C12_GroupComparatorDecidesSameness ==
    gpc = "done" => (res_groups = SameGroups(garg1, garg2))

\* Two excitations with the same indices up to permutation.
Matching(exc1, exc2) == IndexSet(exc1) = IndexSet(exc2)

SomeMatchingPair(l1, l2) ==
    \E a \in 1..Len(l1), b \in 1..Len(l2) : Matching(l1[a], l2[b])

\* r1 and r2 are l1 and l2 without one matching pair.
WithoutAMatchingPair(l1, l2, r1, r2) ==
    \E a \in 1..Len(l1), b \in 1..Len(l2) :
        /\ Matching(l1[a], l2[b])
        /\ r1 = Pop(l1, a)
        /\ r2 = Pop(l2, b)

\* C13: pop_el_when_matched removes one excitation from each list exactly
\* when some excitation of list1 matches some excitation of list2, the two
\* removed being such a pair; when none matches, both lists stay as they were.
C13_PopRemovesAMatchingPair ==
    [][MatchingPass =>
          IF SomeMatchingPair(list1, list2)
            THEN WithoutAMatchingPair(list1, list2, list1', list2')
            ELSE list1' = list1 /\ list2' = list2]_vars

(***************************************************************************)
(* What the spin and particle-number operators depend on.                  *)
(***************************************************************************)
\* C14: the operators at positions 1 to 3 of the result (counted from 0)
\* depend only on num_modes: two calls whose transformed one-body integrals
\* have the same first dimension return the same three operators, whatever
\* the integral values, the two-body integrals and the dipole data are.
C14_DependOnlyOnNumModes ==
    \A i, j \in Instances :
        LET qi == q_molecule_transformed[i]
            qj == q_molecule_transformed[j]
        IN  (/\ Returned(i) /\ Returned(j)
             /\ qi.one_body_integrals.shape = qj.one_body_integrals.shape)
               => SubSeq(outcome[i].value, 2, 4) = SubSeq(outcome[j].value, 2, 4)

\* Two calls returned for the same num_modes from snapshots that differ in
\* their one-body and two-body integrals and in having dipole integrals.
C14_Witness ==
    LET q1 == q_molecule_transformed["p1"]
        q2 == q_molecule_transformed["p2"]
    IN  /\ Returned("p1") /\ Returned("p2")
        /\ q1.one_body_integrals.shape = q2.one_body_integrals.shape
        /\ q1.one_body_integrals # q2.one_body_integrals
        /\ q1.two_body_integrals # q2.two_body_integrals
        /\ has_dipole_integrals(q1) /\ ~has_dipole_integrals(q2)
        /\ q1.one_body_integrals.via # q2.one_body_integrals.via
        /\ SubSeq(outcome["p1"].value, 2, 4) = SubSeq(outcome["p2"].value, 2, 4)

\* C15: every call of pop_el_when_matched removes nothing, or exactly one
\* element from each of the caller's two lists, never from one only; so for
\* lists that started with equal length, after any number of passes the two
\* lengths are equal and at most as many elements are gone as passes done.
C15_RemovesFromBothOrNeither ==
    /\ [][MatchingPass =>
             \/ list1' = list1 /\ list2' = list2
             \/ /\ \E a \in 1..Len(list1) : list1' = Pop(list1, a)
                /\ \E b \in 1..Len(list2) : list2' = Pop(list2, b)]_vars
    /\ []((cpc \in {"loop", "done"} /\ Len(arg1) = Len(arg2)) =>
             /\ Len(list1) = Len(list2)
             /\ Len(arg1) - Len(list1) >= 0
             /\ Len(arg1) - Len(list1) <= passes)

\* Two passes done: one removed a pair, the other removed nothing.
C15_Witness ==
    /\ cpc = "loop" /\ passes = 2
    /\ Len(arg1) = 2 /\ Len(arg2) = 2
    /\ Len(list1) = 1 /\ Len(list2) = 1

=============================================================================
